---- MODULE Spec2Model ----
(***************************************************************************)
(* State-machine model of src/src/app/utils/retry_logic.py:                *)
(* RateLimitTracker, retry_with_exponential_backoff (decorator, wrapper),  *)
(* TranslationRateLimiter, global_rate_limiter and create_retry_decorator. *)
(*                                                                         *)
(* Time (time.time(), time.sleep()) is counted in integer ticks,           *)
(* TicksPerSecond ticks to a second, so that every delay the code computes *)
(* from the modelled inputs is an exact integer.  random.random() returns  *)
(* r / RandDen for r in RandomSamples (0 <= r < RandDen: the source's      *)
(* half-open interval [0, 1)).  Floating-point rounding is not modelled.   *)
(***************************************************************************)
EXTENDS Integers, Sequences, FiniteSets, TLC

\* ------------------------------------------------------------------------
\* Bounds of the model
\* ------------------------------------------------------------------------
MaxRetriesBound == 2    \* max_retries arguments are drawn from 0..MaxRetriesBound
MaxInvocations == 3     \* invocations of wrapped operations one run can perform
MaxOps == 4             \* registry and tracker operations one run performs
MaxHandles == 2         \* trackers the program holds from get_tracker at a time
MaxServiceInvocations == 4
MaxConcurrentInvocations == 3
MaxDirectInvocations == 4
MaxFailures == 12
MaxTrackerCalls == 3
MaxWrappers == 1        \* retry wrappers alive at a time

\* ------------------------------------------------------------------------
\* Time and randomness
\* ------------------------------------------------------------------------
TicksPerSecond == 160
RandDen == 4
RandomSamples == {0, 3}

Sec(n) == n * TicksPerSecond

Min(a, b) == IF a <= b THEN a ELSE b
Max(a, b) == IF a >= b THEN a ELSE b

RECURSIVE Pow2(_)
Pow2(n) == IF n <= 0 THEN 1 ELSE 2 * Pow2(n - 1)

\* ------------------------------------------------------------------------
\* Program constants (seconds)
\* ------------------------------------------------------------------------
TRACKER_BASE_DELAY == 1         \* self.base_delay = 1.0
TRACKER_MAX_DELAY == 300        \* self.max_delay = 300.0
PREVENTIVE_WINDOW == 300        \* time_since_last_rate_limit < 300
PREVENTIVE_CAP == 10            \* min(base_preventive_delay, 10.0)
DEFAULT_BASE_DELAY == 1         \* base_delay: float = 1.0
DEFAULT_MAX_DELAY == 60         \* max_delay: float = 60.0
SERVICE_BASE_DELAY == 1         \* create_retry_decorator: base_delay=1.0
SERVICE_MAX_DELAY == 300        \* create_retry_decorator: max_delay=300.0

\* ------------------------------------------------------------------------
\* Strings: a Python str is named by a TLA+ string and Chars gives its
\* characters, a sequence of one-character strings
\* ------------------------------------------------------------------------
\* The characters of the strings the model names.
Chars(s) ==
    CASE s = "google" -> <<"g", "o", "o", "g", "l", "e">>
      [] s = "Google" -> <<"G", "o", "o", "g", "l", "e">>
      [] s = "openai" -> <<"o", "p", "e", "n", "a", "i">>
      [] s = "OPENAI" -> <<"O", "P", "E", "N", "A", "I">>
      [] s = "deepl" -> <<"d", "e", "e", "p", "l">>
      [] s = "Rate limit exceeded" ->
            <<"R", "a", "t", "e", " ", "l", "i", "m", "i", "t", " ",
              "e", "x", "c", "e", "e", "d", "e", "d">>
      [] s = "Slow down" -> <<"S", "l", "o", "w", " ", "d", "o", "w", "n">>
      [] s = "timeout" -> <<"t", "i", "m", "e", "o", "u", "t">>
      [] s = "" -> <<>>

UpperToLower ==
    [A |-> "a", B |-> "b", C |-> "c", D |-> "d", E |-> "e", F |-> "f",
     G |-> "g", H |-> "h", I |-> "i", J |-> "j", K |-> "k", L |-> "l",
     M |-> "m", N |-> "n", O |-> "o", P |-> "p", Q |-> "q", R |-> "r",
     S |-> "s", T |-> "t", U |-> "u", V |-> "v", W |-> "w", X |-> "x",
     Y |-> "y", Z |-> "z"]

LowerChar(ch) == IF ch \in DOMAIN UpperToLower THEN UpperToLower[ch] ELSE ch

\* s.lower(), as characters
Lower(s) == [i \in 1..Len(Chars(s)) |-> LowerChar(Chars(s)[i])]

\* keyword in s, on characters
Contains(s, keyword) ==
    \E i \in 1..(Len(s) - Len(keyword) + 1) :
        SubSeq(s, i, i + Len(keyword) - 1) = keyword

\* The service names the model passes to the registry.
ServiceNames == {"google", "Google", "openai", "OPENAI", "deepl"}

RATE_LIMIT_ERRORS ==
    { <<"r", "a", "t", "e", " ", "l", "i", "m", "i", "t">>,
      <<"t", "o", "o", " ", "m", "a", "n", "y", " ", "r", "e", "q", "u", "e", "s", "t", "s">>,
      <<"q", "u", "o", "t", "a", " ", "e", "x", "c", "e", "e", "d", "e", "d">>,
      <<"4", "2", "9">>,
      <<"r", "a", "t", "e", "_", "l", "i", "m", "i", "t", "_", "e", "x", "c", "e", "e", "d", "e", "d">>,
      <<"r", "e", "q", "u", "e", "s", "t", "s", " ", "p", "e", "r", " ", "m", "i", "n", "u", "t", "e">>,
      <<"r", "e", "q", "u", "e", "s", "t", "s", " ", "p", "e", "r", " ", "d", "a", "y">>,
      <<"i", "n", "s", "u", "f", "f", "i", "c", "i", "e", "n", "t", "_", "q", "u", "o", "t", "a">> }

\* ------------------------------------------------------------------------
\* Exceptions: a class is named by a string, an error is a record
\* [kind, msg, inv]: its class, its message (str(error)) and the invocation
\* of the wrapped operation that raised it (what tells two errors apart).
\* ------------------------------------------------------------------------
\* The classes isinstance() accepts an error of each kind for.
BASES ==
    [RateLimitError |-> {"RateLimitError", "APIError", "Exception", "BaseException"},
     APIError |-> {"APIError", "Exception", "BaseException"},
     Exception |-> {"Exception", "BaseException"},
     KeyboardInterrupt |-> {"KeyboardInterrupt", "BaseException"}]

IsInstance(error, classes) == BASES[error.kind] \cap classes # {}

None == [kind |-> "None"]

VARIABLES
    openai_available,     \* whether "from openai import ..." succeeded
    now,                  \* time.time(), in ticks
    global_rate_limiter,  \* the TranslationRateLimiter: its two tracker references
    heap,                 \* the live RateLimitTracker objects, by reference
    wrappers,             \* the retry decorators created so far (their closures)
    frames,               \* per caller: the wrapper call it runs (locals, position)
    lookups,              \* the trackers the program holds from get_tracker calls
    service_delay,        \* the last apply_service_delay call: its name and sleep
    reserved,             \* invocations the calls started so far may perform
    ops,                  \* registry operations performed
    last_call             \* the latest method call on a held tracker and what
                          \* it returned

vars == <<openai_available, now, global_rate_limiter, heap, wrappers, frames,
          lookups, service_delay, reserved, ops, last_call>>

OPENAI_RATE_LIMIT_EXCEPTIONS ==
    IF openai_available THEN {"RateLimitError"} ELSE {}
OPENAI_RETRY_EXCEPTIONS ==
    IF openai_available THEN {"RateLimitError", "APIError"} ELSE {}

\* The errors the wrapped operation raises in the model.  The openai classes
\* exist only when the import succeeded.
OperationErrors ==
    { [kind |-> "Exception", msg |-> "Rate limit exceeded"],
      [kind |-> "KeyboardInterrupt", msg |-> ""] }
    \cup
    (IF openai_available
       THEN { [kind |-> "RateLimitError", msg |-> "Slow down"],
              [kind |-> "APIError", msg |-> "timeout"] }
       ELSE { [kind |-> "Exception", msg |-> "timeout"] })

\* ------------------------------------------------------------------------
\* RateLimitTracker
\* ------------------------------------------------------------------------
\* __init__
RateLimitTracker ==
    [consecutive_rate_limits |-> 0,
     last_rate_limit_time |-> 0,
     base_delay |-> Sec(TRACKER_BASE_DELAY),
     max_delay |-> Sec(TRACKER_MAX_DELAY)]

is_rate_limit_error(error) ==
    LET error_str == Lower(error.msg) IN
    IF OPENAI_RATE_LIMIT_EXCEPTIONS # {} /\ IsInstance(error, OPENAI_RATE_LIMIT_EXCEPTIONS)
      THEN TRUE
      ELSE \E keyword \in RATE_LIMIT_ERRORS : Contains(error_str, keyword)

\* calculate_delay with the exponent consecutive_rate_limits instead of
\* consecutive_rate_limits - 1.
calculate_delay_exponent(self, r) ==
    IF self.consecutive_rate_limits = 0
      THEN 0
      ELSE LET delay == Min(self.base_delay * Pow2(self.consecutive_rate_limits),
                            self.max_delay)
               jitter == (delay * (2 * r - RandDen)) \div (4 * RandDen)
               final_delay == delay + jitter
           IN  Max(0, final_delay)

\* calculate_delay without the cap of max_delay.
calculate_delay_uncapped(self, r) ==
    IF self.consecutive_rate_limits = 0
      THEN 0
      ELSE LET delay == self.base_delay * Pow2(self.consecutive_rate_limits - 1)
               jitter == (delay * (2 * r - RandDen)) \div (4 * RandDen)
               final_delay == delay + jitter
           IN  Max(0, final_delay)

\* calculate_delay with a jitter of up to the whole delay instead of a quarter.
calculate_delay_wide_jitter(self, r) ==
    IF self.consecutive_rate_limits = 0
      THEN 0
      ELSE LET delay == Min(self.base_delay * Pow2(self.consecutive_rate_limits - 1),
                            self.max_delay)
               jitter == (delay * (2 * r - RandDen)) \div RandDen
               final_delay == delay + jitter
           IN  Max(0, final_delay)

\* calculate_delay that returns whole seconds.
calculate_delay_whole_seconds(self, r) ==
    IF self.consecutive_rate_limits = 0
      THEN 0
      ELSE LET delay == Min(self.base_delay * Pow2(self.consecutive_rate_limits - 1),
                            self.max_delay)
               jitter == (delay * (2 * r - RandDen)) \div (4 * RandDen)
               final_delay == delay + jitter
           IN  Sec(Max(0, final_delay) \div Sec(1))

\* r is the sample random.random() returns, as r / RandDen.
calculate_delay(self, r) ==
    IF self.consecutive_rate_limits = 0
      THEN 0
      ELSE LET delay == Min(self.base_delay * Pow2(self.consecutive_rate_limits - 1),
                            self.max_delay)
               jitter == (delay * (2 * r - RandDen)) \div (4 * RandDen)
               final_delay == delay + jitter
           IN  Max(0, final_delay)

\* self.consecutive_rate_limits += 1 is a read (LoadCount) and a write
\* (record_rate_limit, given the value read); the write is followed by the
\* assignment of last_rate_limit_time.
LoadCount(self) == self.consecutive_rate_limits

\* record_rate_limit that sets the count to 1 instead of adding 1.
record_rate_limit_assign(self, loaded, time) ==
    [self EXCEPT !.consecutive_rate_limits = 1,
                 !.last_rate_limit_time = time]

\* record_rate_limit as one indivisible increment of the count the tracker
\* holds when the write happens.
record_rate_limit_atomic(self, loaded, time) ==
    [self EXCEPT !.consecutive_rate_limits = @ + 1,
                 !.last_rate_limit_time = time]

\* record_rate_limit without the assignment of last_rate_limit_time.
record_rate_limit_untimed(self, loaded, time) ==
    [self EXCEPT !.consecutive_rate_limits = loaded + 1]

\* record_rate_limit that starts the count again once the window of the last
\* failure has passed.
record_rate_limit_expiring(self, loaded, time) ==
    [self EXCEPT !.consecutive_rate_limits =
                     IF time - self.last_rate_limit_time >= Sec(PREVENTIVE_WINDOW)
                       THEN 1 ELSE loaded + 1,
                 !.last_rate_limit_time = time]

record_rate_limit(self, loaded, time) ==
    [self EXCEPT !.consecutive_rate_limits = loaded + 1,
                 !.last_rate_limit_time = time]

\* record_success that takes one failure off the count.
record_success_decrement(self) ==
    [self EXCEPT !.consecutive_rate_limits = Max(0, @ - 1)]

\* record_success that also forgets the time of the last failure.
record_success_forgets(self) ==
    [self EXCEPT !.consecutive_rate_limits = 0, !.last_rate_limit_time = 0]

record_success(self) == [self EXCEPT !.consecutive_rate_limits = 0]

\* should_apply_preventive_delay with the window's end included.
should_apply_preventive_delay_inclusive(self, time) ==
    IF self.consecutive_rate_limits = 0
      THEN FALSE
      ELSE time - self.last_rate_limit_time <= Sec(PREVENTIVE_WINDOW)

should_apply_preventive_delay(self, time) ==
    IF self.consecutive_rate_limits = 0
      THEN FALSE
      ELSE LET time_since_last_rate_limit == time - self.last_rate_limit_time
           IN  time_since_last_rate_limit < Sec(PREVENTIVE_WINDOW)

\* get_preventive_delay without the cap of 10 seconds.
get_preventive_delay_uncapped(self, time, r) ==
    IF ~should_apply_preventive_delay(self, time)
      THEN 0
      ELSE calculate_delay(self, r) \div 4

get_preventive_delay(self, time, r) ==
    IF ~should_apply_preventive_delay(self, time)
      THEN 0
      ELSE LET base_preventive_delay == calculate_delay(self, r) \div 4
           IN  Min(base_preventive_delay, Sec(PREVENTIVE_CAP))

\* ------------------------------------------------------------------------
\* The heap of trackers
\* ------------------------------------------------------------------------
NoTracker == 0      \* rate_limit_tracker = None

\* A reference no live object has.
NewRef(h) ==
    CHOOSE i \in 1..(Cardinality(DOMAIN h) + 1) :
        /\ i \notin DOMAIN h
        /\ \A j \in 1..(i - 1) : j \in DOMAIN h

Alloc(h, ref) == [i \in DOMAIN h \cup {ref} |-> IF i = ref THEN RateLimitTracker ELSE h[i]]

\* The references the program holds.
Live(limiter, ws, frs, lks) ==
    {limiter.google_tracker, limiter.openai_tracker}
    \cup {w.rate_limit_tracker : w \in ws}
    \cup {frs[c].tracker : c \in DOMAIN frs}
    \cup {lks[i].tracker : i \in DOMAIN lks}

\* Objects no reference reaches are reclaimed.
Collect(h, live) == [i \in DOMAIN h \cap live |-> h[i]]

\* ------------------------------------------------------------------------
\* TranslationRateLimiter
\* ------------------------------------------------------------------------
\* get_tracker comparing the name as given, without lower().
get_tracker_case_sensitive(service, h) ==
    IF Chars(service) = Chars("openai")
      THEN [tracker |-> global_rate_limiter.openai_tracker, heap |-> h]
      ELSE IF Chars(service) = Chars("google")
        THEN [tracker |-> global_rate_limiter.google_tracker, heap |-> h]
        ELSE LET ref == NewRef(h) IN [tracker |-> ref, heap |-> Alloc(h, ref)]

\* get_tracker with one shared default tracker for the unknown services.
get_tracker_shared_default(service, h) ==
    IF Lower(service) = Chars("openai")
      THEN [tracker |-> global_rate_limiter.openai_tracker, heap |-> h]
      ELSE [tracker |-> global_rate_limiter.google_tracker, heap |-> h]

\* get_tracker constructing a tracker on every call, for every service.
get_tracker_per_call(service, h) ==
    LET ref == NewRef(h) IN [tracker |-> ref, heap |-> Alloc(h, ref)]

\* get_tracker returns a reference; for an unknown service it constructs the
\* tracker first, so the result is the reference and the heap after the call.
\* get_tracker with one tracker for both known services.
get_tracker_one_tracker(service, h) ==
    IF Lower(service) = Chars("openai") \/ Lower(service) = Chars("google")
      THEN [tracker |-> global_rate_limiter.google_tracker, heap |-> h]
      ELSE LET ref == NewRef(h) IN [tracker |-> ref, heap |-> Alloc(h, ref)]

get_tracker(service, h) ==
    IF Lower(service) = Chars("openai")
      THEN [tracker |-> global_rate_limiter.openai_tracker, heap |-> h]
      ELSE IF Lower(service) = Chars("google")
        THEN [tracker |-> global_rate_limiter.google_tracker, heap |-> h]
        ELSE LET ref == NewRef(h) IN [tracker |-> ref, heap |-> Alloc(h, ref)]

\* ------------------------------------------------------------------------
\* retry_with_exponential_backoff: the decorator's closure and the wrapper
\* ------------------------------------------------------------------------
Callers == {1, 2}
MainCaller == 1

\* The arguments a decorator is built with (its closure).
Decorator(max_retries, base_delay, max_delay, exceptions, rate_limit_tracker) ==
    [max_retries |-> max_retries,
     base_delay |-> base_delay,
     max_delay |-> max_delay,
     exceptions |-> exceptions,
     rate_limit_tracker |-> rate_limit_tracker]

NoWrapper == Decorator(0, 0, 0, {}, NoTracker)

\* base_delay and max_delay of the wrappers built directly: the defaults, and
\* a configuration with a small max_delay.
DirectDelays ==
    { [base_delay |-> Sec(DEFAULT_BASE_DELAY), max_delay |-> Sec(DEFAULT_MAX_DELAY)],
      [base_delay |-> Sec(DEFAULT_BASE_DELAY), max_delay |-> Sec(DEFAULT_BASE_DELAY)] }

NoOutcome == [kind |-> "none", value |-> 0, error |-> None, via |-> "none"]
Returned(result) == [kind |-> "returned", value |-> result, error |-> None, via |-> "return"]
Raised(error, via) == [kind |-> "raised", value |-> 0, error |-> error, via |-> via]

NoSuccess == [invocation |-> 0, sleeps |-> 0]

\* One call of the wrapper: its locals (named as in the source), its position
\* and what an observer of the call has counted so far.
IdleFrame ==
    [pc |-> "idle",
     wrapper |-> NoWrapper,
     \* locals
     last_exception |-> None,
     tracker |-> NoTracker,
     attempt |-> 0,
     preventive_delay |-> 0,
     is_rate_limit |-> FALSE,
     delay |-> 0,
     loaded |-> 0,
     outcome |-> NoOutcome,
     \* observations
     start_failures |-> 0,       \* tracker.consecutive_rate_limits when the call began
     preventive_due |-> FALSE,   \* line 141's condition at attempt 0
     invocations |-> 0,          \* invocations of the wrapped operation
     raised |-> None,            \* what the latest invocation raised
     rl_failures |-> 0,          \* caught errors classified as rate limit
     other_failures |-> 0,       \* caught errors not classified as rate limit
     preventive_sleeps |-> 0,
     backoff_sleeps |-> 0,
     success |-> NoSuccess]      \* invocation and sleep counts at the success

\* A wrapper whose private tracker is made once and used by all its calls.
BoundTrackerShared(w, h) ==
    IF w.rate_limit_tracker # NoTracker
      THEN [tracker |-> w.rate_limit_tracker, heap |-> h]
      ELSE LET private == DOMAIN h \ {global_rate_limiter.google_tracker,
                                      global_rate_limiter.openai_tracker}
           IN  IF private # {}
                 THEN [tracker |-> CHOOSE ref \in private : TRUE, heap |-> h]
                 ELSE LET ref == NewRef(h) IN [tracker |-> ref, heap |-> Alloc(h, ref)]

\* A wrapper that constructs a tracker on every call, supplied or not.
BoundTrackerFresh(w, h) ==
    LET ref == NewRef(h) IN [tracker |-> ref, heap |-> Alloc(h, ref)]

\* A wrapper that clears the count of its tracker when a call begins.
BoundTrackerReset(w, h) ==
    IF w.rate_limit_tracker # NoTracker
      THEN [tracker |-> w.rate_limit_tracker,
            heap |-> [h EXCEPT ![w.rate_limit_tracker] = record_success(@)]]
      ELSE LET ref == NewRef(h) IN [tracker |-> ref, heap |-> Alloc(h, ref)]

\* tracker = rate_limit_tracker or RateLimitTracker()
BoundTracker(w, h) ==
    IF w.rate_limit_tracker # NoTracker
      THEN [tracker |-> w.rate_limit_tracker, heap |-> h]
      ELSE LET ref == NewRef(h) IN [tracker |-> ref, heap |-> Alloc(h, ref)]

\* for attempt in range(max_retries + 1)
Attempts(max_retries) == 0..max_retries

\* The preventive check without attempt == 0.
PreventiveCheckAnyAttempt(attempt, self, time) ==
    should_apply_preventive_delay(self, time)

\* line 141: attempt == 0 and tracker.should_apply_preventive_delay()
PreventiveCheck(attempt, self, time) ==
    attempt = 0 /\ should_apply_preventive_delay(self, time)

\* An except clause that matches the error's own class only.
CatchesExactClass(exceptions, error) == error.kind \in exceptions

\* except exceptions as e
\* An except clause that also catches whatever is classified as a rate limit.
CatchesRateLimited(exceptions, error) ==
    IsInstance(error, exceptions) \/ is_rate_limit_error(error)

Catches(exceptions, error) == IsInstance(error, exceptions)

\* The break of line 162 taken one attempt early.
LastAttemptEarly(attempt, max_retries) == attempt + 1 >= max_retries

\* The loop without the break of line 163.
LastAttemptNever(attempt, max_retries) == FALSE

\* A wrapper that records every caught error as a rate limit.
RecordsFailureAlways(is_rate_limit) == TRUE

\* line 159: if is_rate_limit: tracker.record_rate_limit()
RecordsFailure(is_rate_limit) == is_rate_limit

\* line 162: if attempt >= max_retries: break
LastAttempt(attempt, max_retries) == attempt >= max_retries

\* lines 171-172: the delay of a non-rate-limit retry before jitter
PlainBackoff(base_delay, max_delay, attempt) ==
    Min(base_delay * Pow2(attempt), max_delay)

\* The delay computed from the tracker as it was before the failure of this
\* attempt was recorded.
RetryDelayStale(is_rate_limit, self, base_delay, max_delay, attempt, r) ==
    IF is_rate_limit
      THEN calculate_delay([self EXCEPT !.consecutive_rate_limits = Max(0, @ - 1)], r)
      ELSE LET delay == PlainBackoff(base_delay, max_delay, attempt)
               jitter == (delay * (2 * r - RandDen)) \div (10 * RandDen)
           IN  Max(0, delay + jitter)

\* The delay taken from the tracker for every caught error.
RetryDelayTracker(is_rate_limit, self, base_delay, max_delay, attempt, r) ==
    calculate_delay(self, r)

\* lines 166-175
RetryDelay(is_rate_limit, self, base_delay, max_delay, attempt, r) ==
    IF is_rate_limit
      THEN calculate_delay(self, r)
      ELSE LET delay == PlainBackoff(base_delay, max_delay, attempt)
               jitter == (delay * (2 * r - RandDen)) \div (10 * RandDen)
           IN  Max(0, delay + jitter)

\* The end of an iteration of the for loop: the next attempt, or, when the
\* range is exhausted, line 185.
NextIteration(f) ==
    IF f.attempt + 1 \in Attempts(f.wrapper.max_retries)
      THEN [f EXCEPT !.attempt = f.attempt + 1, !.pc = "check_preventive"]
      ELSE [f EXCEPT !.pc = "done", !.outcome = Raised(f.last_exception, "exhausted")]

\* A success that does not return: the loop goes on.
AfterSuccessNoReturn(f, result) == NextIteration(f)

\* What the wrapper does on a successful invocation, after record_success:
\* return result.
AfterSuccess(f, result) == [f EXCEPT !.pc = "done", !.outcome = Returned(result)]

\* A wrapper that keeps the first caught error.
RememberFirst(last_exception, e) == IF last_exception = None THEN e ELSE last_exception

\* The exception the wrapper remembers on a caught error (line 154).
Remember(last_exception, e) == e

Idle(c) == frames[c].pc \in {"idle", "done"}

\* A method call on a tracker: the tracker's state when the call was made,
\* the clock and random sample it saw and the value it returned, and which
\* call on a held tracker came before it.
NoCall ==
    [method |-> "none", ref |-> NoTracker, self |-> RateLimitTracker, time |-> 0,
     r |-> 0, value |-> 0,
     previous |-> [method |-> "none", ref |-> NoTracker, time |-> 0]]

MethodCall(method, ref, self, time, r, value) ==
    [method |-> method, ref |-> ref, self |-> self, time |-> time, r |-> r,
     value |-> value,
     previous |-> [method |-> last_call.method, ref |-> last_call.ref,
                   time |-> last_call.time]]

Init ==
    /\ openai_available \in BOOLEAN
    /\ now = Sec(PREVENTIVE_WINDOW)
    /\ global_rate_limiter = [google_tracker |-> 1, openai_tracker |-> 2]
    /\ heap = [i \in {1, 2} |-> RateLimitTracker]
    /\ wrappers = {}
    /\ frames = [c \in Callers |-> IdleFrame]
    /\ lookups = <<>>
    /\ service_delay = [service |-> "", delay |-> 0]
    /\ reserved = 0
    /\ ops = 0
    /\ last_call = NoCall

\* create_retry_decorator(service, max_retries)
create_retry_decorator(c, service, max_retries) ==
    /\ Idle(c)
    /\ LET got == get_tracker(service, heap)
           tracker == got.tracker
           exceptions == IF Lower(service) = Chars("openai") /\ OPENAI_RETRY_EXCEPTIONS # {}
                           THEN OPENAI_RETRY_EXCEPTIONS
                           ELSE {"Exception"}
           w == Decorator(max_retries, Sec(SERVICE_BASE_DELAY), Sec(SERVICE_MAX_DELAY),
                          exceptions, tracker)
       IN  /\ w \notin wrappers
           /\ wrappers' = wrappers \cup {w}
           /\ heap' = Collect(got.heap, Live(global_rate_limiter, wrappers', frames, lookups))
    /\ UNCHANGED <<openai_available, now, global_rate_limiter, frames, lookups,
                   service_delay, reserved, ops, last_call>>

\* retry_with_exponential_backoff(max_retries, base_delay, max_delay) with the
\* default exceptions (Exception) and no tracker.
retry_with_exponential_backoff(c, max_retries, delays) ==
    /\ Idle(c)
    /\ LET w == Decorator(max_retries, delays.base_delay, delays.max_delay,
                          {"Exception"}, NoTracker)
       IN  /\ w \notin wrappers
           /\ wrappers' = wrappers \cup {w}
    /\ UNCHANGED <<openai_available, now, global_rate_limiter, heap, frames, lookups,
                   service_delay, reserved, ops, last_call>>

\* wrapper(*args, **kwargs), lines 135-136: the call begins.
Call(c, w) ==
    /\ Idle(c)
    /\ w \in wrappers
    /\ LET bound == BoundTracker(w, heap)
           f == [IdleFrame EXCEPT !.pc = "check_preventive",
                                  !.wrapper = w,
                                  !.tracker = bound.tracker,
                                  !.start_failures =
                                      bound.heap[bound.tracker].consecutive_rate_limits]
       IN  /\ frames' = [frames EXCEPT ![c] = f]
           /\ heap' = Collect(bound.heap, Live(global_rate_limiter, wrappers, frames', lookups))
    /\ reserved' = reserved + Cardinality(Attempts(w.max_retries))
    /\ UNCHANGED <<openai_available, now, global_rate_limiter, wrappers, lookups,
                   service_delay, ops, last_call>>

\* line 141
CheckPreventive(c) ==
    LET f == frames[c]
        due == PreventiveCheck(f.attempt, heap[f.tracker], now)
    IN  /\ f.pc = "check_preventive"
        /\ frames' = [frames EXCEPT ![c] =
               [f EXCEPT !.pc = IF due THEN "get_preventive" ELSE "invoke",
                         !.preventive_due = IF f.attempt = 0 THEN due ELSE @]]
        /\ UNCHANGED <<openai_available, now, global_rate_limiter, heap, wrappers,
                       lookups, service_delay, reserved, ops, last_call>>

\* lines 142-143
GetPreventive(c) ==
    LET f == frames[c] IN
    /\ f.pc = "get_preventive"
    /\ \E r \in RandomSamples :
         LET preventive_delay == get_preventive_delay(heap[f.tracker], now, r) IN
         frames' = [frames EXCEPT ![c] =
             [f EXCEPT !.preventive_delay = preventive_delay,
                       !.pc = IF preventive_delay > 0 THEN "sleep_preventive" ELSE "invoke"]]
    /\ UNCHANGED <<openai_available, now, global_rate_limiter, heap, wrappers,
                   lookups, service_delay, reserved, ops, last_call>>

\* line 145: time.sleep(preventive_delay)
SleepPreventive(c) ==
    LET f == frames[c] IN
    /\ f.pc = "sleep_preventive"
    /\ now' = now + f.preventive_delay
    /\ frames' = [frames EXCEPT ![c] =
           [f EXCEPT !.pc = "invoke",
                     !.preventive_sleeps = @ + 1]]
    /\ UNCHANGED <<openai_available, global_rate_limiter, heap, wrappers,
                   lookups, service_delay, reserved, ops, last_call>>

\* line 147: result = func(*args, **kwargs) returns.  The result of the
\* n-th invocation is n.
InvokeReturns(c) ==
    LET f == frames[c]
        n == f.invocations + 1
    IN  /\ f.pc = "invoke"
        /\ frames' = [frames EXCEPT ![c] =
               [f EXCEPT !.pc = "record_success",
                         !.invocations = n,
                         !.raised = None,
                         !.success = [invocation |-> n,
                                      sleeps |-> f.preventive_sleeps + f.backoff_sleeps]]]
        /\ UNCHANGED <<openai_available, now, global_rate_limiter, heap, wrappers,
                       lookups, service_delay, reserved, ops, last_call>>

\* line 147 raises e: lines 153-157 when the except clause catches it, and
\* otherwise the error leaves the wrapper.
InvokeRaises(c, e) ==
    LET f == frames[c]
        n == f.invocations + 1
        error == [kind |-> e.kind, msg |-> e.msg, inv |-> n]
        is_rate_limit == is_rate_limit_error(error)
    IN  /\ f.pc = "invoke"
        /\ e \in OperationErrors
        /\ frames' = [frames EXCEPT ![c] =
               IF Catches(f.wrapper.exceptions, error)
                 THEN [f EXCEPT !.pc = IF RecordsFailure(is_rate_limit)
                                        THEN "load_count"
                                        ELSE "backoff",
                                !.invocations = n,
                                !.raised = error,
                                !.last_exception = Remember(f.last_exception, error),
                                !.is_rate_limit = is_rate_limit,
                                !.rl_failures = IF is_rate_limit THEN @ + 1 ELSE @,
                                !.other_failures = IF is_rate_limit THEN @ ELSE @ + 1]
                 ELSE [f EXCEPT !.pc = "done",
                                !.invocations = n,
                                !.raised = error,
                                !.outcome = Raised(error, "propagated")]]
        /\ UNCHANGED <<openai_available, now, global_rate_limiter, heap, wrappers,
                       lookups, service_delay, reserved, ops, last_call>>

\* lines 150-151: tracker.record_success(); return result
RecordSuccess(c) ==
    LET f == frames[c] IN
    /\ f.pc = "record_success"
    /\ heap' = [heap EXCEPT ![f.tracker] = record_success(@)]
    /\ frames' = [frames EXCEPT ![c] = AfterSuccess(f, f.invocations)]
    /\ UNCHANGED <<openai_available, now, global_rate_limiter, wrappers,
                   lookups, service_delay, reserved, ops, last_call>>

\* line 160, first half of line 85: the read of consecutive_rate_limits
LoadFailures(c) ==
    LET f == frames[c] IN
    /\ f.pc = "load_count"
    /\ frames' = [frames EXCEPT ![c] =
           [f EXCEPT !.pc = "store_count", !.loaded = LoadCount(heap[f.tracker])]]
    /\ UNCHANGED <<openai_available, now, global_rate_limiter, heap, wrappers,
                   lookups, service_delay, reserved, ops, last_call>>

\* line 160, the write of line 85 and line 86
StoreFailures(c) ==
    LET f == frames[c] IN
    /\ f.pc = "store_count"
    /\ heap' = [heap EXCEPT ![f.tracker] = record_rate_limit(@, f.loaded, now)]
    /\ frames' = [frames EXCEPT ![c] = [f EXCEPT !.pc = "backoff"]]
    /\ UNCHANGED <<openai_available, now, global_rate_limiter, wrappers,
                   lookups, service_delay, reserved, ops, last_call>>

\* lines 162-163 and 185: the last attempt failed, raise last_exception
GiveUp(c) ==
    LET f == frames[c] IN
    /\ f.pc = "backoff"
    /\ LastAttempt(f.attempt, f.wrapper.max_retries)
    /\ frames' = [frames EXCEPT ![c] =
           [f EXCEPT !.pc = "done", !.outcome = Raised(f.last_exception, "exhausted")]]
    /\ UNCHANGED <<openai_available, now, global_rate_limiter, heap, wrappers,
                   lookups, service_delay, reserved, ops, last_call>>

\* lines 165-180: the delay before the next attempt
Backoff(c) ==
    LET f == frames[c] IN
    /\ f.pc = "backoff"
    /\ ~LastAttempt(f.attempt, f.wrapper.max_retries)
    /\ \E r \in RandomSamples :
         LET delay == RetryDelay(f.is_rate_limit, heap[f.tracker], f.wrapper.base_delay,
                                 f.wrapper.max_delay, f.attempt, r)
             g == [f EXCEPT !.delay = delay]
         IN  frames' = [frames EXCEPT ![c] =
                 IF delay > 0 THEN [g EXCEPT !.pc = "sleep"] ELSE NextIteration(g)]
    /\ UNCHANGED <<openai_available, now, global_rate_limiter, heap, wrappers,
                   lookups, service_delay, reserved, ops, last_call>>

\* line 182: time.sleep(delay)
Sleep(c) ==
    LET f == frames[c] IN
    /\ f.pc = "sleep"
    /\ now' = now + f.delay
    /\ frames' = [frames EXCEPT ![c] =
           NextIteration([f EXCEPT !.backoff_sleeps = @ + 1])]
    /\ UNCHANGED <<openai_available, global_rate_limiter, heap, wrappers,
                   lookups, service_delay, reserved, ops, last_call>>

\* Time passes between calls: the clock reaches the last tick inside
\* (early = 1) or the first tick past (early = 0) the preventive window of a
\* tracker with recorded failures.  Within a call only the sleeps take time.
Tick(ref, early) ==
    /\ \A c \in Callers : Idle(c)
    /\ ref \in DOMAIN heap
    /\ heap[ref].consecutive_rate_limits > 0
    /\ LET time == heap[ref].last_rate_limit_time + Sec(PREVENTIVE_WINDOW) - early
       IN  /\ time > now
           /\ now' = time
    /\ UNCHANGED <<openai_available, global_rate_limiter, heap, wrappers, frames,
                   lookups, service_delay, reserved, ops, last_call>>

\* The steps of one caller's wrapper call.
Step(c) ==
    \/ CheckPreventive(c)
    \/ GetPreventive(c)
    \/ SleepPreventive(c)
    \/ InvokeReturns(c)
    \/ \E e \in OperationErrors : InvokeRaises(c, e)
    \/ RecordSuccess(c)
    \/ LoadFailures(c)
    \/ StoreFailures(c)
    \/ GiveUp(c)
    \/ Backoff(c)
    \/ Sleep(c)

\* The runs explored: at most limit wrappers are built, and the calls
\* started may perform at most limit invocations together.
Room(limit) == Cardinality(wrappers) < limit
Budget(w, limit) == reserved + Cardinality(Attempts(w.max_retries)) <= limit

\* A single-threaded program: one caller builds wrappers and calls them.
MaxRetriesArgs == 0..MaxRetriesBound

Next ==
    \/ \E s \in ServiceNames, m \in MaxRetriesArgs :
           Room(MaxWrappers) /\ create_retry_decorator(MainCaller, s, m)
    \/ \E m \in MaxRetriesArgs, d \in DirectDelays :
           Room(MaxWrappers) /\ retry_with_exponential_backoff(MainCaller, m, d)
    \/ \E w \in wrappers : Budget(w, MaxInvocations) /\ Call(MainCaller, w)
    \/ Step(MainCaller)
    \/ \E ref \in DOMAIN heap : Tick(ref, 0)

Spec == Init /\ [][Next]_vars

\* ------------------------------------------------------------------------
\* The registry and the trackers used directly
\* ------------------------------------------------------------------------
\* The program keeps the trackers of its latest MaxHandles lookups.
Keep(lks, entry) ==
    IF Len(lks) < MaxHandles THEN Append(lks, entry) ELSE Append(Tail(lks), entry)

\* tracker = global_rate_limiter.get_tracker(service); the entry also notes
\* the failure count the tracker had when it was returned.
GetTracker(service) ==
    /\ ops < MaxOps
    /\ ops' = ops + 1
    /\ LET got == get_tracker(service, heap)
           entry == [service |-> service,
                     tracker |-> got.tracker,
                     initial |-> got.heap[got.tracker].consecutive_rate_limits]
       IN  /\ lookups' = Keep(lookups, entry)
           /\ heap' = Collect(got.heap, Live(global_rate_limiter, wrappers, frames, lookups'))
    /\ UNCHANGED <<openai_available, now, global_rate_limiter, wrappers, frames,
                   service_delay, reserved, last_call>>

\* tracker.record_rate_limit() on a tracker the program holds
RecordRateLimit(i) ==
    /\ ops < MaxOps
    /\ ops' = ops + 1
    /\ i \in DOMAIN lookups
    /\ heap' = [heap EXCEPT ![lookups[i].tracker] = record_rate_limit(@, LoadCount(@), now)]
    /\ last_call' = MethodCall("record_rate_limit", lookups[i].tracker,
                            heap[lookups[i].tracker], now, 0, 0)
    /\ UNCHANGED <<openai_available, now, global_rate_limiter, wrappers, frames,
                   lookups, service_delay, reserved>>

\* tracker.record_success() on a tracker the program holds
RecordSuccessDirect(i) ==
    /\ ops < MaxOps
    /\ ops' = ops + 1
    /\ i \in DOMAIN lookups
    /\ heap' = [heap EXCEPT ![lookups[i].tracker] = record_success(@)]
    /\ last_call' = MethodCall("record_success", lookups[i].tracker,
                            heap[lookups[i].tracker], now, 0, 0)
    /\ UNCHANGED <<openai_available, now, global_rate_limiter, wrappers, frames,
                   lookups, service_delay, reserved>>

\* apply_service_delay(service): the time it sleeps (0 when it does not sleep)
apply_service_delay(service, h, time, r) ==
    LET got == get_tracker(service, h)
        tracker == got.heap[got.tracker]
    IN  IF should_apply_preventive_delay(tracker, time)
          THEN LET delay == get_preventive_delay(tracker, time, r)
               IN  IF delay > 0 THEN delay ELSE 0
          ELSE 0

ApplyServiceDelay(service) ==
    /\ ops < MaxOps
    /\ ops' = ops + 1
    /\ \E r \in RandomSamples :
         LET delay == apply_service_delay(service, heap, now, r) IN
         /\ now' = now + delay
         /\ service_delay' = [service |-> service, delay |-> delay]
    /\ UNCHANGED <<openai_available, global_rate_limiter, heap, wrappers, frames,
                   lookups, reserved, last_call>>

NextRegistry ==
    \/ \E s \in ServiceNames : GetTracker(s)
    \/ \E i \in 1..MaxHandles : RecordRateLimit(i)
    \/ \E i \in 1..MaxHandles : RecordSuccessDirect(i)
    \/ \E s \in ServiceNames : ApplyServiceDelay(s)
    \/ \E ref \in DOMAIN heap, early \in {0, 1} : Tick(ref, early)

SpecRegistry == Init /\ [][NextRegistry]_vars

\* ------------------------------------------------------------------------
\* Properties
\* ------------------------------------------------------------------------
Sleeps(f) == f.preventive_sleeps + f.backoff_sleeps
Failures(f) == f.rl_failures + f.other_failures
Succeeded(f) == f.success.invocation > 0

\* d lies within 25% of nominal.
InBand(d, nominal) == 4 * d >= 3 * nominal /\ 4 * d <= 5 * nominal

\* C1: one call of the wrapper invokes the operation at most max_retries + 1
\* times, and exactly max_retries + 1 times when every invocation failed with
\* an error the except clause caught.
C1_AttemptsBounded ==
    \A c \in Callers :
        LET f == frames[c] IN
        /\ f.invocations <= f.wrapper.max_retries + 1
        /\ (f.pc = "done" /\ Failures(f) = f.invocations)
              => f.invocations = f.wrapper.max_retries + 1

C1_Witness ==
    \E c \in Callers :
        LET f == frames[c] IN
        /\ f.pc = "done"
        /\ f.wrapper.max_retries = 2
        /\ Failures(f) = 3
        /\ f.invocations = 3

\* C2: once an invocation has succeeded the wrapper invokes nothing and
\* sleeps no more; it calls record_success (the tracker's count is 0 when the
\* call has returned) and returns that invocation's result; a first-call
\* success on a tracker without failures is one invocation and no sleep.
C2_SuccessReturns ==
    \A c \in Callers :
        LET f == frames[c] IN
        /\ Succeeded(f) =>
              /\ f.pc \in {"record_success", "done"}
              /\ f.invocations = f.success.invocation
              /\ Sleeps(f) = f.success.sleeps
        /\ (Succeeded(f) /\ f.pc = "done") =>
              /\ f.outcome = Returned(f.success.invocation)
              /\ heap[f.tracker].consecutive_rate_limits = 0
        /\ (f.outcome.kind = "returned" /\ f.start_failures = 0 /\ Failures(f) = 0) =>
              /\ f.invocations = 1
              /\ Sleeps(f) = 0

C2_Witness ==
    \E c \in Callers :
        LET f == frames[c] IN
        /\ f.outcome.kind = "returned"
        /\ f.rl_failures >= 1
        /\ f.invocations >= 2
        /\ f.wrapper.max_retries > f.attempt

\* C3: when the call ends because the attempts are exhausted, the error it
\* raises is the one the last invocation (number max_retries + 1) raised.
C3_ExhaustionRaisesLast ==
    \A c \in Callers :
        LET f == frames[c] IN
        f.outcome.via = "exhausted" =>
            /\ f.outcome = Raised(f.raised, "exhausted")
            /\ f.raised # None
            /\ f.raised.inv = f.wrapper.max_retries + 1
            /\ f.invocations = f.wrapper.max_retries + 1

C3_Witness ==
    \E c \in Callers :
        LET f == frames[c] IN
        /\ f.outcome.via = "exhausted"
        /\ f.wrapper.max_retries = 2
        /\ f.outcome.error.inv = 3

\* C4 as stated: an error the except clause does not catch, raised by the
\* first invocation, ends the call with no sleep of any kind.
C4_NoSleepAtAll ==
    \A c \in Callers :
        LET f == frames[c] IN
        (f.outcome.via = "propagated" /\ f.invocations = 1) => Sleeps(f) = 0

\* C4, amended: an error the except clause does not catch leaves the wrapper
\* as raised, with nothing recorded on the tracker for it; raised by the first
\* invocation it ends the call after that one invocation with no backoff
\* sleep, and the call has slept only the preventive delay, once, exactly
\* when line 141's condition held (which needs recorded failures).
C4_NonEligiblePropagates ==
    \A c \in Callers :
        LET f == frames[c] IN
        f.outcome.via = "propagated" =>
            /\ f.pc = "done"
            /\ f.outcome = Raised(f.raised, "propagated")
            /\ f.raised.inv = f.invocations
            /\ ~IsInstance(f.raised, f.wrapper.exceptions)
            /\ f.invocations = 1 =>
                  /\ f.backoff_sleeps = 0
                  /\ Failures(f) = 0
                  /\ heap[f.tracker].consecutive_rate_limits = f.start_failures
                  /\ f.preventive_sleeps = (IF f.preventive_due THEN 1 ELSE 0)
                  /\ f.preventive_due => f.start_failures > 0

C4_Witness ==
    \E c \in Callers :
        LET f == frames[c] IN
        /\ f.outcome.via = "propagated"
        /\ f.invocations = 1
        /\ f.preventive_sleeps = 1
        /\ f.preventive_delay > 0

\* C5: on a tracker without failures at the start, while every invocation
\* fails with a caught rate-limit error, there is no preventive sleep and one
\* backoff sleep per finished attempt; the call ends after max_retries sleeps
\* raising the error of invocation max_retries + 1, and the tracker then
\* counts max_retries + 1 failures.
C5_AlwaysRateLimited ==
    \A c \in Callers :
        LET f == frames[c] IN
        (f.pc # "idle" /\ f.start_failures = 0 /\ f.rl_failures = f.invocations) =>
            /\ f.preventive_sleeps = 0
            /\ f.backoff_sleeps = f.attempt
            /\ f.pc = "done" =>
                  /\ f.outcome = Raised(f.raised, "exhausted")
                  /\ f.raised.inv = f.wrapper.max_retries + 1
                  /\ f.backoff_sleeps = f.wrapper.max_retries
                  /\ heap[f.tracker].consecutive_rate_limits = f.wrapper.max_retries + 1

C5_Witness ==
    \E c \in Callers :
        LET f == frames[c] IN
        /\ f.pc = "done"
        /\ f.start_failures = 0
        /\ f.wrapper.max_retries = 2
        /\ f.rl_failures = 3
        /\ f.invocations = 3

\* C6: on a tracker without failures at the start and base_delay 1.0, while
\* the invocations fail with caught rate-limit errors and then one succeeds,
\* there is no preventive sleep, the i-th backoff sleep lasts within 25% of
\* base_delay * 2^(i-1), and the call returns the successful result after as
\* many sleeps as failures, leaving the tracker's count at 0.
C6_FailThenSucceed ==
    \A c \in Callers :
        LET f == frames[c]
            i == IF f.pc = "sleep" THEN f.backoff_sleeps + 1 ELSE f.backoff_sleeps
        IN
        (/\ f.pc # "idle"
         /\ f.start_failures = 0
         /\ f.wrapper.base_delay = Sec(DEFAULT_BASE_DELAY)
         /\ f.invocations = f.rl_failures + (IF Succeeded(f) THEN 1 ELSE 0)) =>
            /\ f.preventive_sleeps = 0
            /\ i >= 1 => InBand(f.delay, f.wrapper.base_delay * Pow2(i - 1))
            /\ f.outcome.kind = "returned" =>
                  /\ f.backoff_sleeps = f.rl_failures
                  /\ f.outcome.value = f.rl_failures + 1
                  /\ heap[f.tracker].consecutive_rate_limits = 0

C6_Witness ==
    \E c \in Callers :
        LET f == frames[c] IN
        /\ f.outcome.kind = "returned"
        /\ f.start_failures = 0
        /\ f.rl_failures = 2
        /\ f.invocations = 3
        /\ f.backoff_sleeps = 2
        /\ f.delay > 2 * f.wrapper.base_delay

\* C7 as stated: every wait between two attempts is at most the wrapper's
\* max_delay.
C7_WaitAtMostMaxDelay ==
    \A c \in Callers :
        LET f == frames[c] IN
        f.pc = "sleep" => f.delay <= f.wrapper.max_delay

\* ------------------------------------------------------------------------
\* Properties of the registry
\* ------------------------------------------------------------------------
Known(service) == Lower(service) \in {Chars("google"), Chars("openai")}

RegistryRefs == {global_rate_limiter.google_tracker, global_rate_limiter.openai_tracker}

\* C8: the registry keeps the two trackers its constructor made, and every
\* lookup of "google" or "openai", in any letter case, returns the registry's
\* tracker of that service.
C8_KnownServiceOneTracker ==
    /\ global_rate_limiter = [google_tracker |-> 1, openai_tracker |-> 2]
    /\ RegistryRefs \subseteq DOMAIN heap
    /\ \A i \in DOMAIN lookups :
          /\ Lower(lookups[i].service) = Chars("google")
                => lookups[i].tracker = global_rate_limiter.google_tracker
          /\ Lower(lookups[i].service) = Chars("openai")
                => lookups[i].tracker = global_rate_limiter.openai_tracker
    /\ \A i, j \in DOMAIN lookups :
          (Known(lookups[i].service) /\ Lower(lookups[i].service) = Lower(lookups[j].service))
              => lookups[i].tracker = lookups[j].tracker

\* A failure recorded through the tracker of a "Google" lookup is seen by the
\* later lookup of "google".
C8_Witness ==
    /\ Len(lookups) = 2
    /\ lookups[1].service = "Google"
    /\ lookups[1].initial = 0
    /\ lookups[2].service = "google"
    /\ lookups[2].initial = 1

\* C9: a lookup of any other name returns a tracker without failures that no
\* other lookup, no wrapper, no call and no known service refers to, and
\* apply_service_delay for such a name does not sleep.
C9_UnknownServiceFreshTracker ==
    /\ \A i \in DOMAIN lookups :
          ~Known(lookups[i].service) =>
              /\ lookups[i].initial = 0
              /\ lookups[i].tracker \in DOMAIN heap
              /\ lookups[i].tracker \notin RegistryRefs
              /\ \A j \in DOMAIN lookups \ {i} : lookups[j].tracker # lookups[i].tracker
              /\ \A w \in wrappers : w.rate_limit_tracker # lookups[i].tracker
              /\ \A c \in Callers : frames[c].tracker # lookups[i].tracker
    /\ ~Known(service_delay.service) => service_delay.delay = 0

\* Two lookups of "deepl", failures recorded through the first, and
\* apply_service_delay("deepl") afterwards.
C9_Witness ==
    /\ Len(lookups) = 2
    /\ lookups[1].service = "deepl"
    /\ lookups[2].service = "deepl"
    /\ heap[lookups[1].tracker].consecutive_rate_limits > 0
    /\ service_delay.service = "deepl"

\* A wrapper create_retry_decorator built for an unknown name: its tracker is
\* neither absent nor one of the registry's.
UnknownServiceWrapper(w) == w.rate_limit_tracker \notin ({NoTracker} \cup RegistryRefs)

\* The preventive part of attempt 0 is over.
PastPreventive(f) ==
    f.attempt > 0 \/ f.pc \notin {"idle", "check_preventive", "get_preventive", "sleep_preventive"}

\* C10 as stated: every call of a wrapper built for an unknown name starts
\* with no recorded failures and applies no preventive delay.
C10_NeverAccumulates ==
    \A c \in Callers :
        LET f == frames[c] IN
        (f.pc # "idle" /\ UnknownServiceWrapper(f.wrapper)) =>
            /\ f.start_failures = 0
            /\ f.preventive_sleeps = 0

\* C10, amended: a wrapper built for an unknown name has one tracker of its
\* own, without failures until a call records one and shared with no known
\* service and no other wrapper; every call of the wrapper uses that tracker,
\* so the count a call starts with and the failures it records add up on it
\* (a success resets it), and the call sleeps the preventive delay exactly
\* when line 141's condition holds, which needs a count above 0 at its start.
C10_WrapperKeepsTracker ==
    /\ \A w \in wrappers :
          UnknownServiceWrapper(w) =>
              /\ w.rate_limit_tracker \in DOMAIN heap
              /\ \A v \in wrappers \ {w} : v.rate_limit_tracker # w.rate_limit_tracker
              /\ reserved = 0 => heap[w.rate_limit_tracker].consecutive_rate_limits = 0
    /\ \A c \in Callers :
          LET f == frames[c]
              pending == IF f.pc \in {"load_count", "store_count"} THEN 1 ELSE 0
          IN
          (f.pc # "idle" /\ UnknownServiceWrapper(f.wrapper)) =>
              /\ f.tracker = f.wrapper.rate_limit_tracker
              /\ heap[f.tracker].consecutive_rate_limits =
                    (IF f.outcome.kind = "returned"
                       THEN 0
                       ELSE f.start_failures + f.rl_failures - pending)
              /\ PastPreventive(f) => f.preventive_sleeps = (IF f.preventive_due THEN 1 ELSE 0)
              /\ f.preventive_due => f.start_failures > 0

C10_Witness ==
    \E c \in Callers :
        LET f == frames[c] IN
        /\ f.pc = "done"
        /\ UnknownServiceWrapper(f.wrapper)
        /\ f.start_failures >= 1
        /\ f.preventive_sleeps = 1

\* ------------------------------------------------------------------------
\* Sequential calls through the wrappers of one known service
\* ------------------------------------------------------------------------
\* The names of the service, in the letter cases of ServiceNames.
GoogleNames == {s \in ServiceNames : Lower(s) = Chars("google")}

\* max_retries of the service's wrappers: without and with a retry.
ServiceRetriesArgs == {0, 1}

\* The program builds at most one wrapper per caller and makes its calls one
\* after another; its last call runs as NextCaller, so that the call before
\* it stays observable in frames[MainCaller].
NextCaller == 2

NextServices ==
    \/ \E s \in GoogleNames, m \in ServiceRetriesArgs :
           Room(Cardinality(Callers)) /\ create_retry_decorator(MainCaller, s, m)
    \/ \E w \in wrappers :
           /\ Budget(w, MaxServiceInvocations)
           /\ frames[NextCaller].pc = "idle"
           /\ Call(MainCaller, w)
    \/ \E w \in wrappers :
           /\ Budget(w, MaxServiceInvocations)
           /\ frames[MainCaller].pc = "done"
           /\ frames[NextCaller].pc = "idle"
           /\ Call(NextCaller, w)
    \/ \E c \in Callers : Step(c)
    \/ \E ref \in DOMAIN heap, early \in {0, 1} : Tick(ref, early)

SpecServices == Init /\ [][NextServices]_vars

\* frames[NextCaller] is the call after a call that ended by exhaustion with
\* rate-limit failures recorded on the same tracker.
AfterExhaustion ==
    LET f1 == frames[MainCaller]
        f2 == frames[NextCaller]
    IN  /\ f2.pc # "idle"
        /\ f1.outcome.via = "exhausted"
        /\ f1.rl_failures >= 1
        /\ f2.tracker = f1.tracker

\* The first rate-limit failure of the call has been recorded and its backoff
\* computed.
FirstRateLimitBackoff(f) == f.pc = "sleep" /\ f.is_rate_limit /\ f.rl_failures = 1

\* C11 as stated: after a call that ended by exhaustion having recorded k
\* rate-limit failures, the first rate-limit failure of the next call for
\* the service computes its backoff from a count of k + 1.
C11_BackoffFromKPlusOne ==
    LET f1 == frames[MainCaller]
        f2 == frames[NextCaller]
    IN  (AfterExhaustion /\ FirstRateLimitBackoff(f2)) =>
            heap[f2.tracker].consecutive_rate_limits = f1.rl_failures + 1

\* C11, amended: the wrappers of a known service, whatever the letter case of
\* the name, are bound to the registry's tracker of that service.  When a
\* call that began with a count of c0 ends by exhaustion having recorded k
\* rate-limit failures, the next call on that tracker begins with c0 + k,
\* sleeps a preventive delay before its first attempt exactly when it begins
\* less than 300 s after the last failure, and computes the backoff of its
\* first rate-limit failure from a count of c0 + k + 1.
C11_ServiceCallsShareTracker ==
    /\ \A w \in wrappers : w.rate_limit_tracker \in RegistryRefs
    /\ LET f1 == frames[MainCaller]
           f2 == frames[NextCaller]
           self == heap[f2.tracker]
           left == f1.start_failures + f1.rl_failures
           began == now - f2.preventive_sleeps * f2.preventive_delay
       IN  AfterExhaustion =>
               /\ f2.start_failures = left
               /\ (f2.pc = "invoke" /\ f2.invocations = 0) =>
                     /\ f2.preventive_sleeps = 1
                            <=> began - self.last_rate_limit_time < Sec(PREVENTIVE_WINDOW)
                     /\ f2.preventive_sleeps = 1 => f2.preventive_delay > 0
               /\ FirstRateLimitBackoff(f2) =>
                     /\ self.consecutive_rate_limits = left + 1
                     /\ \E r \in RandomSamples : f2.delay = calculate_delay(self, r)

\* Through another wrapper of the service: a preventive sleep, then the
\* backoff of the first rate-limit failure from a count of k + 1.
C11_Witness ==
    LET f1 == frames[MainCaller]
        f2 == frames[NextCaller]
    IN  /\ AfterExhaustion
        /\ f1.start_failures = 0
        /\ f2.wrapper # f1.wrapper
        /\ f2.preventive_sleeps = 1
        /\ FirstRateLimitBackoff(f2)
        /\ heap[f2.tracker].consecutive_rate_limits = f1.rl_failures + 1

\* ------------------------------------------------------------------------
\* The methods of one tracker, called directly
\* ------------------------------------------------------------------------
\* random.random() under test: the samples of RandomSamples and 1/2, the
\* value at which the jitter term 2 * random.random() - 1 is 0.
MockedSamples == RandomSamples \cup {RandDen \div 2}

\* tracker.calculate_delay()
CalculateDelay(i) ==
    /\ ops < MaxOps
    /\ ops' = ops + 1
    /\ i \in DOMAIN lookups
    /\ \E r \in MockedSamples :
         LET self == heap[lookups[i].tracker] IN
         last_call' = MethodCall("calculate_delay", lookups[i].tracker, self, now, r,
                                 calculate_delay(self, r))
    /\ UNCHANGED <<openai_available, now, global_rate_limiter, heap, wrappers, frames,
                   lookups, service_delay, reserved>>

\* tracker.should_apply_preventive_delay()
ShouldApplyPreventiveDelay(i) ==
    /\ ops < MaxOps
    /\ ops' = ops + 1
    /\ i \in DOMAIN lookups
    /\ LET self == heap[lookups[i].tracker] IN
       last_call' = MethodCall("should_apply_preventive_delay", lookups[i].tracker, self,
                               now, 0, should_apply_preventive_delay(self, now))
    /\ UNCHANGED <<openai_available, now, global_rate_limiter, heap, wrappers, frames,
                   lookups, service_delay, reserved>>

\* tracker.get_preventive_delay()
GetPreventiveDelay(i) ==
    /\ ops < MaxOps
    /\ ops' = ops + 1
    /\ i \in DOMAIN lookups
    /\ \E r \in MockedSamples :
         LET self == heap[lookups[i].tracker] IN
         last_call' = MethodCall("get_preventive_delay", lookups[i].tracker, self, now, r,
                                 get_preventive_delay(self, now, r))
    /\ UNCHANGED <<openai_available, now, global_rate_limiter, heap, wrappers, frames,
                   lookups, service_delay, reserved>>

\* The names looked up: a known service and an unknown one.
TrackerNames == {"google", "deepl"}

\* The google tracker has been used before: it holds any count up to
\* MaxFailures, the last of the failures recorded just now.
InitTracker ==
    /\ openai_available \in BOOLEAN
    /\ now = Sec(PREVENTIVE_WINDOW)
    /\ global_rate_limiter = [google_tracker |-> 1, openai_tracker |-> 2]
    /\ \E n \in 0..MaxFailures :
         heap = [i \in {1, 2} |->
                    IF i = 1 /\ n > 0
                      THEN [RateLimitTracker EXCEPT !.consecutive_rate_limits = n,
                                                    !.last_rate_limit_time = now]
                      ELSE RateLimitTracker]
    /\ wrappers = {}
    /\ frames = [c \in Callers |-> IdleFrame]
    /\ lookups = <<>>
    /\ service_delay = [service |-> "", delay |-> 0]
    /\ reserved = 0
    /\ ops = 0
    /\ last_call = NoCall

\* The runs explored make at most MaxTrackerCalls calls.
NextTracker ==
    \/ \E s \in TrackerNames : ops < MaxTrackerCalls /\ GetTracker(s)
    \/ \E i \in 1..MaxHandles : ops < MaxTrackerCalls /\ RecordRateLimit(i)
    \/ \E i \in 1..MaxHandles : ops < MaxTrackerCalls /\ RecordSuccessDirect(i)
    \/ \E i \in 1..MaxHandles : ops < MaxTrackerCalls /\ CalculateDelay(i)
    \/ \E i \in 1..MaxHandles : ops < MaxTrackerCalls /\ ShouldApplyPreventiveDelay(i)
    \/ \E i \in 1..MaxHandles : ops < MaxTrackerCalls /\ GetPreventiveDelay(i)
    \/ \E ref \in DOMAIN heap, early \in {0, 1} : Tick(ref, early)

SpecTracker == InitTracker /\ [][NextTracker]_vars

\* The call before the latest one was method, on the same tracker.
RightAfter(method) ==
    /\ last_call.previous.method = method
    /\ last_call.previous.ref = last_call.ref

\* min(base_delay * 2^(n-1), max_delay) of the tracker state self
Nominal(self) ==
    Min(self.base_delay * Pow2(self.consecutive_rate_limits - 1), self.max_delay)

\* C12: calculate_delay() on a tracker whose count is 0 returns 0 whatever
\* random.random() returns; record_success() leaves the count at 0 whatever
\* it was, and a calculate_delay() right after it returns 0.
C12_ZeroCountZeroDelay ==
    /\ (last_call.method = "calculate_delay" /\ last_call.self.consecutive_rate_limits = 0)
           => last_call.value = 0
    /\ (last_call.method = "record_success" /\ last_call.ref \in DOMAIN heap)
           => heap[last_call.ref].consecutive_rate_limits = 0
    /\ (last_call.method = "calculate_delay" /\ RightAfter("record_success"))
           => /\ last_call.self.consecutive_rate_limits = 0
              /\ last_call.value = 0

\* From a count of MaxFailures: record_success(), then calculate_delay() with
\* the sample that gives the largest jitter.
C12_Witness ==
    /\ last_call.method = "calculate_delay"
    /\ RightAfter("record_success")
    /\ last_call.r = 3
    /\ last_call.value = 0
    /\ \E i \in DOMAIN lookups :
          /\ lookups[i].tracker = last_call.ref
          /\ lookups[i].initial = MaxFailures

\* C13 as stated: with random.random() returning 0 and a count n >= 1,
\* calculate_delay() returns min(base_delay * 2^(n-1), max_delay).
C13_RandomZeroNoJitter ==
    (/\ last_call.method = "calculate_delay"
     /\ last_call.self.consecutive_rate_limits >= 1
     /\ last_call.r = 0)
        => last_call.value = Nominal(last_call.self)

\* C13, amended: for a count n >= 1, calculate_delay() returns
\* min(base_delay * 2^(n-1), max_delay) when random.random() returns 1/2 (the
\* jitter term 2 * random.random() - 1 is then 0); with random.random()
\* returning 0 it returns three quarters of that, and in every case a value
\* within 25% of it.
C13_NominalDelay ==
    (/\ last_call.method = "calculate_delay"
     /\ last_call.self.consecutive_rate_limits >= 1)
        => /\ 2 * last_call.r = RandDen => last_call.value = Nominal(last_call.self)
           /\ last_call.r = 0 => 4 * last_call.value = 3 * Nominal(last_call.self)
           /\ InBand(last_call.value, Nominal(last_call.self))

\* The count is large enough for max_delay to cap the delay.
C13_Witness ==
    /\ last_call.method = "calculate_delay"
    /\ 2 * last_call.r = RandDen
    /\ last_call.self.consecutive_rate_limits = MaxFailures
    /\ last_call.value = last_call.self.max_delay
    /\ last_call.value < last_call.self.base_delay * Pow2(MaxFailures - 1)

\* C14: should_apply_preventive_delay() returns true exactly when the count
\* is above 0 and less than 300 s have passed since the last failure: false
\* on a new tracker and right after record_success(), true right after
\* record_rate_limit(), false when exactly 300 s have passed.
C14_PreventiveWindow ==
    last_call.method = "should_apply_preventive_delay" =>
        LET self == last_call.self
            elapsed == last_call.time - self.last_rate_limit_time
        IN  /\ last_call.value
               <=> (self.consecutive_rate_limits > 0 /\ elapsed < Sec(PREVENTIVE_WINDOW))
            /\ self = RateLimitTracker => ~last_call.value
            /\ RightAfter("record_success") => ~last_call.value
            /\ (RightAfter("record_rate_limit") /\ last_call.previous.time = last_call.time)
                   => last_call.value
            /\ elapsed >= Sec(PREVENTIVE_WINDOW) => ~last_call.value

\* A failure is recorded, exactly 300 s pass, and the answer is false.
C14_Witness ==
    /\ last_call.method = "should_apply_preventive_delay"
    /\ RightAfter("record_rate_limit")
    /\ last_call.self.consecutive_rate_limits > 0
    /\ last_call.time - last_call.self.last_rate_limit_time = Sec(PREVENTIVE_WINDOW)
    /\ ~last_call.value

\* C15: get_preventive_delay() returns 0 when should_apply_preventive_delay()
\* is false and min(calculate_delay() / 4, 10 s) otherwise, so a value from 0
\* to 10 s whatever the count.
C15_PreventiveDelayCapped ==
    last_call.method = "get_preventive_delay" =>
        LET self == last_call.self
            applies == /\ self.consecutive_rate_limits > 0
                       /\ last_call.time - self.last_rate_limit_time < Sec(PREVENTIVE_WINDOW)
        IN  /\ last_call.value >= 0
            /\ last_call.value <= Sec(PREVENTIVE_CAP)
            /\ ~applies => last_call.value = 0
            /\ applies => last_call.value =
                              Min(calculate_delay(self, last_call.r) \div 4, Sec(PREVENTIVE_CAP))

\* With a count of MaxFailures a quarter of the delay is far above the cap.
C15_Witness ==
    /\ last_call.method = "get_preventive_delay"
    /\ last_call.self.consecutive_rate_limits = MaxFailures
    /\ calculate_delay(last_call.self, last_call.r) \div 4 > Sec(PREVENTIVE_CAP)
    /\ last_call.value = Sec(PREVENTIVE_CAP)

\* ------------------------------------------------------------------------
\* Calls of one service wrapper, run to their end
\* ------------------------------------------------------------------------
\* The program builds one wrapper of the google service and calls it again
\* and again.
NextTermination ==
    \/ \E s \in GoogleNames, m \in MaxRetriesArgs :
           wrappers = {} /\ create_retry_decorator(MainCaller, s, m)
    \/ \E w \in wrappers : Budget(w, MaxServiceInvocations) /\ Call(MainCaller, w)
    \/ Step(MainCaller)
    \/ \E ref \in DOMAIN heap : Tick(ref, 0)

\* Every invocation of the operation and every sleep completes, and the
\* thread running the call is scheduled: the call takes its next step.
SpecTermination ==
    Init /\ [][NextTermination]_vars /\ WF_vars(Step(MainCaller))

Running(c) == frames[c].pc \notin {"idle", "done"}

\* How a finished call ended: a success, an error the except clause does not
\* catch, or a caught error on the last attempt.
EndedProperly(f) ==
    \/ /\ f.outcome = Returned(f.invocations)
       /\ Succeeded(f)
    \/ /\ f.outcome = Raised(f.raised, "propagated")
       /\ ~IsInstance(f.raised, f.wrapper.exceptions)
    \/ /\ f.outcome = Raised(f.raised, "exhausted")
       /\ IsInstance(f.raised, f.wrapper.exceptions)
       /\ f.invocations = f.wrapper.max_retries + 1
       /\ Failures(f) = f.wrapper.max_retries + 1

WithinLimits(f) ==
    /\ f.invocations <= f.wrapper.max_retries + 1
    /\ f.backoff_sleeps <= f.wrapper.max_retries
    /\ f.preventive_sleeps <= 1
    /\ f.pc = "done" => EndedProperly(f)

\* C16: a call of the wrapper whose invocations and sleeps complete ends,
\* returning a result or raising an error, after at most max_retries + 1
\* invocations, at most max_retries backoff sleeps and at most one preventive
\* sleep; it ends by a success, by an error that is not retry-eligible, or by
\* a caught error on attempt max_retries, and in no other way.
C16_CallTerminates ==
    /\ [](\A c \in Callers : WithinLimits(frames[c]))
    /\ \A c \in Callers : Running(c) ~> (frames[c].pc = "done")

\* A call that used everything it may: a preventive sleep, max_retries + 1
\* invocations and max_retries backoff sleeps.
C16_Witness ==
    LET f == frames[MainCaller] IN
    /\ f.pc = "done"
    /\ f.outcome.via = "exhausted"
    /\ f.wrapper.max_retries >= 1
    /\ f.invocations = f.wrapper.max_retries + 1
    /\ f.backoff_sleeps = f.wrapper.max_retries
    /\ f.preventive_sleeps = 1

\* ------------------------------------------------------------------------
\* Two threads calling the wrapper of one service
\* ------------------------------------------------------------------------
\* The callers are threads: the steps of their calls interleave, and a
\* thread may be switched out between the read and the write of
\* self.consecutive_rate_limits += 1.
NextConcurrent ==
    \/ \E s \in GoogleNames, m \in ServiceRetriesArgs :
           wrappers = {} /\ create_retry_decorator(MainCaller, s, m)
    \/ \E c \in Callers, w \in wrappers :
           Budget(w, MaxConcurrentInvocations) /\ Call(c, w)
    \/ \E c \in Callers : Step(c)
    \/ \E ref \in DOMAIN heap : Tick(ref, 0)

SpecConcurrent == Init /\ [][NextConcurrent]_vars

\* The rate-limit failures of the call whose record_rate_limit has written.
Stored(f) == f.rl_failures - (IF f.pc \in {"load_count", "store_count"} THEN 1 ELSE 0)

\* The two running or finished calls are the only calls made so far, they
\* use one tracker, and neither has succeeded: the failures recorded since
\* the last success are the failures these two calls have stored.
OnlyTwoCalls ==
    LET f1 == frames[MainCaller]
        f2 == frames[NextCaller]
    IN  /\ f1.pc # "idle"
        /\ f2.pc # "idle"
        /\ f1.tracker = f2.tracker
        /\ reserved = Cardinality(Attempts(f1.wrapper.max_retries))
                      + Cardinality(Attempts(f2.wrapper.max_retries))
        /\ ~Succeeded(f1)
        /\ ~Succeeded(f2)

\* C17: record_rate_limit on the shared tracker is a read and a later write
\* with nothing to keep other threads out: the write stores the value read
\* plus one, whatever the counter holds by then, so the count never exceeds
\* the failures recorded and can fall short of them.
C17_UnprotectedCounter ==
    /\ [][\A c \in Callers :
             (frames[c].pc = "store_count" /\ frames'[c].pc # "store_count")
                 => heap'[frames[c].tracker].consecutive_rate_limits = frames[c].loaded + 1]_vars
    /\ [](OnlyTwoCalls =>
             LET recorded == Stored(frames[MainCaller]) + Stored(frames[NextCaller])
                 count == heap[frames[MainCaller].tracker].consecutive_rate_limits
             IN  /\ count <= recorded
                 /\ recorded >= 1 => count >= 1)

\* A lost update: two failures recorded since the last success, a count of 1.
C17_Witness ==
    /\ OnlyTwoCalls
    /\ Stored(frames[MainCaller]) = 1
    /\ Stored(frames[NextCaller]) = 1
    /\ heap[frames[MainCaller].tracker].consecutive_rate_limits = 1

\* ------------------------------------------------------------------------
\* Properties of one call on a tracker with history
\* ------------------------------------------------------------------------
\* C18: within a call the attempts follow one another, and the failure of an
\* attempt is recorded before the wait after it is computed: until the call
\* succeeds the tracker's count is the count the call began with plus the
\* rate-limit failures of its attempts so far, and the wait after a
\* rate-limit failure is calculate_delay() of that count.
C18_DelayReflectsFailures ==
    LET f == frames[MainCaller]
        self == heap[f.tracker]
    IN  f.pc # "idle" =>
            /\ f.invocations = f.attempt + (IF f.pc \in {"check_preventive", "get_preventive",
                                                         "sleep_preventive", "invoke"}
                                              THEN 0 ELSE 1)
            /\ ~Succeeded(f) => self.consecutive_rate_limits = f.start_failures + Stored(f)
            /\ (f.pc = "sleep" /\ f.is_rate_limit) =>
                  \E r \in RandomSamples :
                      f.delay = calculate_delay(
                          [self EXCEPT !.consecutive_rate_limits =
                                           f.start_failures + f.rl_failures], r)

\* The wait after the first attempt of a call that began with a count above
\* 0: the delay of the count carried in plus one.
C18_Witness ==
    LET f == frames[MainCaller] IN
    /\ f.pc = "sleep"
    /\ f.is_rate_limit
    /\ f.start_failures >= 1
    /\ f.rl_failures = 1
    /\ InBand(f.delay, f.wrapper.base_delay * Pow2(f.start_failures))

\* C19: the wrapper asks for and sleeps a preventive delay only at attempt 0
\* and only when should_apply_preventive_delay() holds there; from attempt 1
\* on it never does, whatever the tracker holds.
C19_PreventiveOnlyFirstAttempt ==
    \A c \in Callers :
        LET f == frames[c] IN
        /\ f.pc \in {"get_preventive", "sleep_preventive"} =>
              /\ f.attempt = 0
              /\ f.preventive_due
              /\ should_apply_preventive_delay(heap[f.tracker], now)
        /\ f.preventive_sleeps <= 1
        /\ f.preventive_sleeps = 1 => f.preventive_due
        /\ f.preventive_due => f.start_failures > 0
        /\ f.attempt >= 1 => f.preventive_sleeps = (IF f.preventive_due THEN 1 ELSE 0)

\* Attempt 1 begins on a tracker for which should_apply_preventive_delay()
\* holds, and the only preventive sleep of the call is the one before
\* attempt 0.
C19_Witness ==
    LET f == frames[MainCaller] IN
    /\ f.pc = "invoke"
    /\ f.attempt >= 1
    /\ f.invocations = f.attempt
    /\ should_apply_preventive_delay(heap[f.tracker], now)
    /\ f.preventive_sleeps = 1

\* C20: after a caught error that is not classified as a rate limit, until
\* the next attempt begins or the call ends, no step of the call changes the
\* tracker: the count and the time of the last failure stay as they were.
C20_OtherErrorLeavesTracker ==
    /\ [][\A c \in Callers :
             LET f == frames[c] IN
             (f.pc \in {"invoke", "load_count", "store_count", "backoff", "sleep"}
              /\ frames'[c].pc # "invoke"
              /\ ~frames'[c].is_rate_limit)
                 => heap'[f.tracker] = heap[f.tracker]]_vars
    /\ [](LET f == frames[MainCaller] IN
          (f.pc \in {"backoff", "sleep", "done"} /\ f.other_failures >= 1
           /\ f.outcome.via # "propagated" /\ ~Succeeded(f))
              => heap[f.tracker].consecutive_rate_limits = f.start_failures + f.rl_failures)

\* A rate-limit failure, then another caught error on the last attempt: the
\* count is still that of the one rate-limit failure.
C20_Witness ==
    LET f == frames[MainCaller] IN
    /\ f.pc = "done"
    /\ f.outcome.via = "exhausted"
    /\ ~f.is_rate_limit
    /\ f.other_failures >= 1
    /\ f.rl_failures = 1
    /\ f.start_failures = 0
    /\ heap[f.tracker].consecutive_rate_limits = 1


\* ------------------------------------------------------------------------
\* Sequential calls of a wrapper built without a tracker
\* ------------------------------------------------------------------------
\* The program builds one wrapper, with retry_with_exponential_backoff and no
\* tracker or with create_retry_decorator, and calls it one call after
\* another; its last call runs as NextCaller.
NextDirect ==
    \/ \E m \in MaxRetriesArgs, d \in DirectDelays :
           wrappers = {} /\ retry_with_exponential_backoff(MainCaller, m, d)
    \/ \E m \in ServiceRetriesArgs :
           wrappers = {} /\ create_retry_decorator(MainCaller, "google", m)
    \/ \E w \in wrappers :
           /\ Budget(w, MaxDirectInvocations)
           /\ frames[NextCaller].pc = "idle"
           /\ Call(MainCaller, w)
    \/ \E w \in wrappers :
           /\ Budget(w, MaxDirectInvocations)
           /\ frames[MainCaller].pc = "done"
           /\ frames[NextCaller].pc = "idle"
           /\ Call(NextCaller, w)
    \/ \E c \in Callers : Step(c)
    \/ \E ref \in DOMAIN heap : Tick(ref, 0)

SpecDirect == Init /\ [][NextDirect]_vars

\* d lies within 10% of nominal.
InBand10(d, nominal) == 10 * d >= 9 * nominal /\ 10 * d <= 11 * nominal

\* C21: the wait after the failed attempt a, when it is not the last, is
\* tracker.calculate_delay() if the error was classified as a rate limit, and
\* otherwise within 10% of min(base_delay * 2^a, max_delay) of the wrapper,
\* whatever the tracker holds; every such failure is followed by its wait.
C21_WaitByClassification ==
    \A c \in Callers :
        LET f == frames[c]
            self == heap[f.tracker]
        IN  /\ f.pc = "sleep" =>
                  /\ f.is_rate_limit =>
                        \E r \in RandomSamples : f.delay = calculate_delay(self, r)
                  /\ ~f.is_rate_limit =>
                        InBand10(f.delay, Min(f.wrapper.base_delay * Pow2(f.attempt),
                                              f.wrapper.max_delay))
            /\ (f.pc \in {"check_preventive", "get_preventive", "sleep_preventive", "invoke"}
                /\ ~f.is_rate_limit)
                  => f.backoff_sleeps = f.attempt

\* Attempt 1 fails with another error on a tracker that holds a failure: the
\* wait is the wrapper's max_delay, which caps base_delay * 2.
C21_Witness ==
    \E c \in Callers :
        LET f == frames[c] IN
        /\ f.pc = "sleep"
        /\ ~f.is_rate_limit
        /\ f.attempt = 1
        /\ heap[f.tracker].consecutive_rate_limits = 1
        /\ f.wrapper.max_delay < f.wrapper.base_delay * Pow2(f.attempt)
        /\ InBand10(f.delay, f.wrapper.max_delay)

\* C28: a wrapper built without a tracker makes a new tracker in every call:
\* the call begins without failures, on a tracker no earlier call and no
\* service uses, never sleeps a preventive delay, and its waits after
\* rate-limit failures come from its own failures alone.
C28_PrivateTrackerPerCall ==
    /\ \A c \in Callers :
          LET f == frames[c]
              self == heap[f.tracker]
          IN  (f.pc # "idle" /\ f.wrapper.rate_limit_tracker = NoTracker) =>
                  /\ f.start_failures = 0
                  /\ ~f.preventive_due
                  /\ f.preventive_sleeps = 0
                  /\ f.tracker \notin RegistryRefs
                  /\ ~Succeeded(f) => self.consecutive_rate_limits = Stored(f)
                  /\ (f.pc = "sleep" /\ f.is_rate_limit) =>
                        \E r \in RandomSamples :
                            f.delay = calculate_delay(
                                [RateLimitTracker EXCEPT !.consecutive_rate_limits =
                                                             f.rl_failures], r)
    /\ (/\ frames[MainCaller].pc # "idle"
        /\ frames[NextCaller].pc # "idle"
        /\ frames[NextCaller].wrapper.rate_limit_tracker = NoTracker)
           => frames[NextCaller].tracker # frames[MainCaller].tracker

\* After a call that ended by exhaustion with two rate-limit failures, the
\* next call of the wrapper waits, after its first rate-limit failure, the
\* delay of one failure.
C28_Witness ==
    LET f1 == frames[MainCaller]
        f2 == frames[NextCaller]
    IN  /\ f1.outcome.via = "exhausted"
        /\ f1.rl_failures = 2
        /\ f2.wrapper = f1.wrapper
        /\ f2.wrapper.rate_limit_tracker = NoTracker
        /\ f2.pc = "sleep"
        /\ f2.is_rate_limit
        /\ f2.rl_failures = 1
        /\ InBand(f2.delay, f2.wrapper.base_delay)


\* ------------------------------------------------------------------------
\* The tracker's delay over its counts, and what its two records change
\* ------------------------------------------------------------------------
\* self with one failure more.
OneMore(self) ==
    [self EXCEPT !.consecutive_rate_limits = @ + 1]

\* base_delay * 2^(n-1) of self has reached max_delay.
Clamped(self) ==
    /\ self.consecutive_rate_limits >= 1
    /\ self.base_delay * Pow2(self.consecutive_rate_limits - 1) >= self.max_delay

CallOf(method) ==
    /\ last_call'.method = method
    /\ \/ last_call'.ref # last_call.ref
       \/ last_call'.self # last_call.self
       \/ last_call'.time # last_call.time
       \/ last_call'.previous # last_call.previous

\* C23: record_rate_limit() adds exactly 1 to the count and sets the time of
\* the last failure to the current time; base_delay and max_delay stay as
\* constructed and no other tracker changes.
C23_RecordFailureEffect ==
    [][CallOf("record_rate_limit") =>
          LET ref == last_call'.ref IN
          /\ now' = now
          /\ heap' = [heap EXCEPT ![ref] =
                        [consecutive_rate_limits |-> heap[ref].consecutive_rate_limits + 1,
                         last_rate_limit_time |-> now,
                         base_delay |-> RateLimitTracker.base_delay,
                         max_delay |-> RateLimitTracker.max_delay]]]_vars

\* A failure recorded after the window of the earlier failures has passed.
C23_Witness ==
    /\ last_call.method = "record_rate_limit"
    /\ last_call.ref \in DOMAIN heap
    /\ last_call.self.consecutive_rate_limits >= 1
    /\ last_call.time > last_call.self.last_rate_limit_time
    /\ heap[last_call.ref].consecutive_rate_limits =
           last_call.self.consecutive_rate_limits + 1
    /\ heap[last_call.ref].last_rate_limit_time = last_call.time

\* C24: record_success() sets the count to 0 and changes nothing else: the
\* time of the last failure, base_delay and max_delay stay, no other tracker
\* changes, and the tracker applies no preventive delay.
C24_RecordSuccessEffect ==
    [][CallOf("record_success") =>
          LET ref == last_call'.ref IN
          /\ now' = now
          /\ heap' = [heap EXCEPT ![ref] =
                        [consecutive_rate_limits |-> 0,
                         last_rate_limit_time |-> heap[ref].last_rate_limit_time,
                         base_delay |-> RateLimitTracker.base_delay,
                         max_delay |-> RateLimitTracker.max_delay]]
          /\ ~should_apply_preventive_delay(heap'[ref], now')
          /\ \A r \in MockedSamples : get_preventive_delay(heap'[ref], now', r) = 0]_vars

\* A success recorded within the window of the last failure: the tracker
\* keeps the time of that failure.
C24_Witness ==
    /\ last_call.method = "record_success"
    /\ last_call.ref \in DOMAIN heap
    /\ last_call.self.consecutive_rate_limits > 0
    /\ heap[last_call.ref].consecutive_rate_limits = 0
    /\ heap[last_call.ref].last_rate_limit_time = last_call.self.last_rate_limit_time
    /\ heap[last_call.ref].last_rate_limit_time > 0
    /\ now - heap[last_call.ref].last_rate_limit_time < Sec(PREVENTIVE_WINDOW)
    /\ ~should_apply_preventive_delay(heap[last_call.ref], now)


\* ------------------------------------------------------------------------
\* The count of a service tracker over the calls of one caller
\* ------------------------------------------------------------------------
\* The step of caller c that begins a call.
CallBegins(c) ==
    /\ frames[c].pc \in {"idle", "done"}
    /\ frames'[c].pc = "check_preventive"

\* The step of caller c that stores a recorded rate-limit failure.
FailureStored(c) ==
    /\ frames[c].pc = "store_count"
    /\ frames'[c].pc = "backoff"
    /\ frames[c].is_rate_limit
    /\ IsInstance(frames[c].raised, frames[c].wrapper.exceptions)

\* The step of caller c that records the success of an invocation.
SuccessRecorded(c) ==
    /\ frames[c].pc = "record_success"
    /\ frames'[c].pc = "done"
    /\ Succeeded(frames[c])

\* The count of the google tracker in the heap h.
GoogleCount(h) == h[global_rate_limiter.google_tracker].consecutive_rate_limits

\* C25: with one caller, the count of the shared tracker is the number of
\* caught rate-limit failures since the last successful invocation: it is 0
\* at construction, a stored rate-limit failure adds 1, a recorded success
\* sets it to 0, and no other step changes it; a call begins with the count
\* the calls before it left, and until it succeeds the count is that count
\* plus the rate-limit failures it has stored, whatever other failures it had.
C25_CountSinceLastSuccess ==
    /\ [](LET f == frames[MainCaller] IN
          f.pc # "idle" =>
              /\ f.tracker = global_rate_limiter.google_tracker
              /\ ~Succeeded(f) => GoogleCount(heap) = f.start_failures + Stored(f)
              /\ (Succeeded(f) /\ f.pc = "done") => GoogleCount(heap) = 0)
    /\ [][CallBegins(MainCaller) =>
             /\ GoogleCount(heap') = GoogleCount(heap)
             /\ frames'[MainCaller].start_failures = GoogleCount(heap)]_vars
    /\ [][GoogleCount(heap') # GoogleCount(heap) =>
             \/ FailureStored(MainCaller) /\ GoogleCount(heap') = GoogleCount(heap) + 1
             \/ SuccessRecorded(MainCaller) /\ GoogleCount(heap') = 0]_vars

\* A call that began with failures of earlier calls, had a failure of another
\* kind and a rate-limit failure, and was exhausted.
C25_Witness ==
    LET f == frames[MainCaller] IN
    /\ f.pc = "done"
    /\ f.outcome.via = "exhausted"
    /\ f.start_failures >= 2
    /\ f.other_failures >= 1
    /\ f.rl_failures >= 1
    /\ heap[f.tracker].consecutive_rate_limits = f.start_failures + f.rl_failures

\* The window of the tracker's last failure has passed.
WindowExpired(self, time) ==
    /\ self.consecutive_rate_limits > 0
    /\ time - self.last_rate_limit_time >= Sec(PREVENTIVE_WINDOW)

\* C26: the count falls only when a success is recorded; a step in which
\* time passes changes no tracker; once the window of the last failure has
\* passed, should_apply_preventive_delay() is false and calculate_delay() is
\* above 0, and the next rate-limit failure makes the count the old count
\* plus one and is followed by the wait of that count.
C26_CountOutlivesWindow ==
    /\ [][\A ref \in DOMAIN heap \cap DOMAIN heap' :
             heap'[ref].consecutive_rate_limits < heap[ref].consecutive_rate_limits
                 => \E c \in Callers : SuccessRecorded(c) /\ frames[c].tracker = ref]_vars
    /\ [][now' # now => heap' = heap]_vars
    /\ [](\A ref \in DOMAIN heap :
             WindowExpired(heap[ref], now) =>
                 /\ ~should_apply_preventive_delay(heap[ref], now)
                 /\ \A r \in RandomSamples : calculate_delay(heap[ref], r) > 0)
    /\ [](LET f == frames[MainCaller] IN
          (f.pc = "sleep" /\ f.is_rate_limit /\ f.rl_failures = 1 /\ ~f.preventive_due) =>
              /\ heap[f.tracker].consecutive_rate_limits = f.start_failures + 1
              /\ \E r \in RandomSamples :
                     f.delay = calculate_delay(
                         [RateLimitTracker EXCEPT !.consecutive_rate_limits =
                                                      f.start_failures + 1], r))

\* A call that began after the window of two earlier failures had passed: no
\* preventive sleep, and its first rate-limit failure waits the delay of
\* three failures.
C26_Witness ==
    LET f == frames[MainCaller] IN
    /\ f.start_failures = 2
    /\ ~f.preventive_due
    /\ f.preventive_sleeps = 0
    /\ f.pc = "sleep"
    /\ f.is_rate_limit
    /\ f.rl_failures = 1
    /\ heap[f.tracker].consecutive_rate_limits = 3
    /\ InBand(f.delay, f.wrapper.base_delay * Pow2(2))


\* ------------------------------------------------------------------------
\* A retrying call and another call on the same tracker
\* ------------------------------------------------------------------------
\* Two threads call one google wrapper, once each; nothing orders their
\* steps.
NextOverlapping ==
    \/ \E s \in GoogleNames, m \in ServiceRetriesArgs :
           wrappers = {} /\ create_retry_decorator(MainCaller, s, m)
    \/ \E c \in Callers, w \in wrappers :
           frames[c].pc = "idle" /\ Call(c, w)
    \/ \E c \in Callers : Step(c)

SpecOverlapping == Init /\ [][NextOverlapping]_vars

\* Caller c is about to invoke the operation again after a rate-limit failure.
RetriesAfterRateLimit(c) ==
    /\ frames[c].pc \in {"check_preventive", "get_preventive", "sleep_preventive", "invoke"}
    /\ frames[c].attempt >= 1
    /\ frames[c].is_rate_limit

\* C27 as stated: whatever the other thread does, the wrapper has slept a
\* delay above 0 before it invokes the operation again after a rate-limit
\* failure.
C27_AlwaysSleepsBeforeRetry ==
    \A c \in Callers :
        RetriesAfterRateLimit(c) =>
            /\ frames[c].delay > 0
            /\ frames[c].backoff_sleeps = frames[c].attempt

\* The step of caller c that computes the delay after a failure on an
\* attempt that is not the last (lines 166-180).
DelayComputed(c) ==
    /\ frames[c].pc = "backoff"
    /\ frames'[c].pc \notin {"backoff", "done"}

\* C27, single caller and concurrent: after a rate-limit failure on an
\* attempt that is not the last, the delay is above 0 and the wrapper sleeps
\* it exactly when the tracker's count is above 0 at the time the delay is
\* computed; the count is above 0 then when no other call is made, and is 0
\* only when another call has recorded a success since the failure was
\* stored, and then the wrapper invokes the operation again without a sleep.
C27_SleepsUnlessCountCleared ==
    /\ [][\A c \in Callers :
             (DelayComputed(c) /\ frames[c].is_rate_limit) =>
                 LET count == heap[frames[c].tracker].consecutive_rate_limits IN
                 /\ count > 0 => (frames'[c].delay > 0 /\ frames'[c].pc = "sleep")
                 /\ count = 0 => (/\ frames'[c].delay = 0
                                  /\ frames'[c].pc = "check_preventive"
                                  /\ frames'[c].backoff_sleeps = frames[c].backoff_sleeps)]_vars
    /\ [][\A c \in Callers :
             (frames[c].pc = "backoff" /\ frames[c].is_rate_limit
              /\ heap[frames[c].tracker].consecutive_rate_limits > 0
              /\ heap'[frames[c].tracker].consecutive_rate_limits = 0)
                 => \E o \in Callers \ {c} : SuccessRecorded(o)]_vars
    /\ [](\A c \in Callers :
             (frames[c].pc = "backoff" /\ frames[c].is_rate_limit
              /\ \A o \in Callers \ {c} : frames[o].pc = "idle")
                 => heap[frames[c].tracker].consecutive_rate_limits > 0)
    /\ [](\A c \in Callers :
             (RetriesAfterRateLimit(c) /\ \A o \in Callers \ {c} : frames[o].pc = "idle")
                 => (frames[c].delay > 0 /\ frames[c].backoff_sleeps = frames[c].attempt))

\* Attempt 1 is about to be invoked after a rate-limit failure, without a
\* sleep, the other call having succeeded.
C27_Witness ==
    \E c \in Callers :
        /\ RetriesAfterRateLimit(c)
        /\ frames[c].attempt = 1
        /\ frames[c].rl_failures = 1
        /\ frames[c].delay = 0
        /\ frames[c].backoff_sleeps = 0
        /\ \E o \in Callers \ {c} : Succeeded(frames[o]) /\ frames[o].pc = "done"


\* ------------------------------------------------------------------------
\* Wrappers of the two known services
\* ------------------------------------------------------------------------
KnownNames == {"google", "openai"}

\* One caller builds a wrapper for each of the two known services, calls
\* them one call after another, and calls apply_service_delay once between
\* two calls.
NextIsolation ==
    \/ \E s \in KnownNames, m \in ServiceRetriesArgs :
           /\ \A w \in wrappers :
                  w.rate_limit_tracker # get_tracker(s, heap).tracker
           /\ create_retry_decorator(MainCaller, s, m)
    \/ \E w \in wrappers : Budget(w, MaxInvocations) /\ Call(MainCaller, w)
    \/ Step(MainCaller)
    \/ \E s \in KnownNames :
           /\ Idle(MainCaller)
           /\ service_delay.service = ""
           /\ ApplyServiceDelay(s)

SpecIsolation == Init /\ [][NextIsolation]_vars

\* The step changes the count or the failure time of the tracker ref.
TrackerChanges(ref) ==
    \/ heap'[ref].consecutive_rate_limits # heap[ref].consecutive_rate_limits
    \/ heap'[ref].last_rate_limit_time # heap[ref].last_rate_limit_time

\* The step is one of a call of a wrapper bound to the tracker ref, storing a
\* failure or recording a success.
RecordedByCallOn(ref) ==
    \E c \in Callers :
        /\ frames[c].tracker = ref
        /\ frames[c].wrapper.rate_limit_tracker = ref
        /\ FailureStored(c) \/ SuccessRecorded(c)

\* C29: the google wrapper is bound to the google tracker and the openai
\* wrapper, the one with the openai exceptions when the package is there, to
\* the openai tracker, and the two are different objects; the count and the
\* failure time of either tracker change only in a step of a call of its own
\* wrapper, and no apply_service_delay changes a tracker.
C29_KnownServicesIsolated ==
    /\ [](/\ global_rate_limiter.google_tracker # global_rate_limiter.openai_tracker
          /\ \A w \in wrappers :
                /\ w.rate_limit_tracker \in {global_rate_limiter.google_tracker,
                                             global_rate_limiter.openai_tracker}
                /\ openai_available =>
                      (w.exceptions = OPENAI_RETRY_EXCEPTIONS
                          <=> w.rate_limit_tracker = global_rate_limiter.openai_tracker))
    /\ [][TrackerChanges(global_rate_limiter.openai_tracker)
             => RecordedByCallOn(global_rate_limiter.openai_tracker)]_vars
    /\ [][TrackerChanges(global_rate_limiter.google_tracker)
             => RecordedByCallOn(global_rate_limiter.google_tracker)]_vars
    /\ [][service_delay' # service_delay => heap' = heap]_vars

\* Two failures on google, one on openai, kept apart, and an
\* apply_service_delay for google that slept.
C29_Witness ==
    /\ heap[global_rate_limiter.google_tracker].consecutive_rate_limits = 2
    /\ heap[global_rate_limiter.openai_tracker].consecutive_rate_limits = 1
    /\ service_delay.service = "google"
    /\ service_delay.delay > 0

\* C30 as stated: a call that ends with an error the except clause does not
\* catch leaves the tracker's count as it was when the call began.
C30_PropagatedLeavesCallUnchanged ==
    \A c \in Callers :
        frames[c].outcome.via = "propagated" =>
            heap[frames[c].tracker].consecutive_rate_limits = frames[c].start_failures

\* C30: an error the except clause does not catch ends the call at once,
\* even when it is classified as a rate limit, and the step that raises it
\* changes no tracker: no success and no failure is recorded for it, and the
\* tracker stays as the earlier attempts of the call left it, its count the
\* count the call began with plus the rate-limit failures caught before.
C30_UncaughtErrorRecordsNothing ==
    /\ [][\A c \in Callers :
             (frames[c].pc = "invoke" /\ frames'[c].outcome.via = "propagated")
                 => (heap' = heap /\ now' = now)]_vars
    /\ [](\A c \in Callers :
             LET f == frames[c] IN
             (f.raised # None /\ ~IsInstance(f.raised, f.wrapper.exceptions)) =>
                 /\ f.pc = "done"
                 /\ f.outcome = Raised(f.raised, "propagated")
                 /\ ~Succeeded(f)
                 /\ heap[f.tracker].consecutive_rate_limits
                        = f.start_failures + f.rl_failures
                 /\ f.invocations = 1 =>
                        heap[f.tracker].consecutive_rate_limits = f.start_failures)

\* An openai wrapper's first invocation raises Exception("Rate limit
\* exceeded") on a tracker holding a failure: the error leaves the wrapper
\* and the count is as before.
C30_Witness ==
    LET f == frames[MainCaller] IN
    /\ f.outcome.via = "propagated"
    /\ f.raised.kind = "Exception"
    /\ is_rate_limit_error(f.raised)
    /\ OPENAI_RETRY_EXCEPTIONS # {}
    /\ f.wrapper.exceptions = OPENAI_RETRY_EXCEPTIONS
    /\ f.invocations = 1
    /\ f.start_failures >= 1
    /\ heap[f.tracker].consecutive_rate_limits = f.start_failures

====
